---- MODULE Spec2Model ----
(***************************************************************************)
(* A model of the dns2 message codec: the data model (src/src/lib.rs), the *)
(* length calculator (src/src/len.rs), the formatter (src/src/format.rs),  *)
(* the parser (src/src/parse.rs) and the byte cursor primitives            *)
(* (src/src/rust.rs).                                                      *)
(*                                                                         *)
(* Bytes are integers 0..255.  A Rust String is modelled as the sequence   *)
(* of its UTF-8 bytes.  A write cursor (&mut &mut [u8]) is a record        *)
(* [cap, out, log]: the buffer's capacity, the bytes written so far, and a  *)
(* ghost log of the rdata extents written.  A read                         *)
(* cursor (&mut &[u8]) is a position into the message; `start` and every   *)
(* window derived from it end where the message ends.                      *)
(***************************************************************************)
EXTENDS Integers, Sequences, FiniteSets, TLC

VARIABLES
    p,      \* the Packet the caller is building (lib.rs Packet)
    dst,    \* the caller's destination buffer handed to Packet::format
    fres,   \* the result of Packet::format
    src,    \* the bytes handed to Packet::parse
    craft,  \* how src was produced: the recipe of a crafted datagram
    pres,   \* the result of Packet::parse
    pc      \* the caller's position: build, formatted, sent, received, parsed, failed

vars == <<p, dst, fres, src, craft, pres, pc>>

----------------------------------------------------------------------------
(* Program constants *)

CLASS_IN == 1
A == 1
AAAA == 28
MX == 15
PTR == 12
RP == 17
TXT == 16
ALL == 255

HeaderSize == 12
MaxPacket == 512
MaxLabel == 63
MaxString == 255
DOT == 46

(* Bounds of the model *)
MaxEntries == 2
ChainHops == 9

----------------------------------------------------------------------------
(* Integer conversions (Rust `as` casts) *)

AsU8(v) == v % 256
AsU16(v) == v % 65536
AsI16(v) == LET u == v % 65536 IN IF u >= 32768 THEN u - 65536 ELSE u

(* 32-bit words are held as their signed (i32) value: TLC's integers are   *)
(* 32 bits wide, so `as i32` and `as u32` keep the bit pattern and every   *)
(* 32-bit quantity of the model lies in -2^31 .. 2^31 - 1.                 *)
AsI32(v) == v
AsU32(v) == v

Min(a, b) == IF a < b THEN a ELSE b
Rep(n, b) == [i \in 1..n |-> b]

RECURSIVE SumSeq(_)
SumSeq(s) == IF s = <<>> THEN 0 ELSE s[1] + SumSeq(Tail(s))

----------------------------------------------------------------------------
(* Enumerations and their wire codes (lib.rs) *)

KindCode(k) == CASE k = "Standard" -> 0 [] k = "Inverse" -> 1 [] k = "Status" -> 2

ResponseCodeCode(c) ==
    CASE c = "Ok" -> 0 [] c = "FormatError" -> 1 [] c = "ServerFailure" -> 2
      [] c = "NameError" -> 3 [] c = "NotImplemented" -> 4 [] c = "Refused" -> 5

TypeCode(t) ==
    CASE t = "A" -> A [] t = "Aaaa" -> AAAA [] t = "Mx" -> MX [] t = "Ptr" -> PTR
      [] t = "Rp" -> RP [] t = "Txt" -> TXT [] t = "All" -> ALL

ClassCode(c) == CASE c = "In" -> CLASS_IN [] c = "All" -> ALL

to_type(d) == d.tag

(* Packet::query *)
query(id) ==
    [id |-> id, is_query |-> TRUE, kind |-> "Standard",
     is_authoritative |-> FALSE, truncated |-> FALSE,
     recursion_desired |-> TRUE, recursion_available |-> FALSE,
     response_code |-> "Ok",
     question |-> <<>>, answer |-> <<>>, authority |-> <<>>, additional |-> <<>>]

(* A Duration is a number of seconds and a number of nanoseconds in        *)
(* 0..999999999 added to it.  Duration::num_seconds is the whole number of *)
(* seconds, rounded towards zero; Duration::seconds has no fraction.       *)
num_seconds(d) == IF d.secs < 0 /\ d.nanos > 0 THEN d.secs + 1 ELSE d.secs
seconds(n) == [secs |-> n, nanos |-> 0]

----------------------------------------------------------------------------
(* str::split('.') *)

RECURSIVE SplitFrom(_, _)
SplitFrom(s, i) ==
    LET dots == {j \in i..Len(s) : s[j] = DOT} IN
    IF dots = {} THEN << SubSeq(s, i, Len(s)) >>
    ELSE LET d == CHOOSE j \in dots : \A k \in dots : j <= k
         IN << SubSeq(s, i, d - 1) >> \o SplitFrom(s, d + 1)

split(s) == SplitFrom(s, 1)

----------------------------------------------------------------------------
(* Length calculator (len.rs) *)

(* the terminating zero label left out *)
len_domain_name_M(s) ==
    LET parts == split(s) IN
    SumSeq([i \in 1..Len(parts) |-> 1 + Len(parts[i])])

len_domain_name(s) ==
    LET parts == split(s) IN
    SumSeq([i \in 1..Len(parts) |-> 1 + Len(parts[i])]) + 1

len_character_string(s) == 1 + Len(s)

len_a == 4
len_aaaa == 16
len_mx(domain) == 2 + len_domain_name(domain)
len_ptr(domain) == len_domain_name(domain)
len_rp(mbox, txt) == len_domain_name(mbox) + len_domain_name(txt)
len_txt(s) == SumSeq([i \in 1..Len(s) |-> len_character_string(s[i])])

len_data(d) ==
    CASE d.tag = "A" -> len_a
      [] d.tag = "Aaaa" -> len_aaaa
      [] d.tag = "Mx" -> len_mx(d.domain)
      [] d.tag = "Ptr" -> len_ptr(d.domain)
      [] d.tag = "Rp" -> len_rp(d.mbox, d.txt)
      [] d.tag = "Txt" -> len_txt(d.text)

len_question(q) == len_domain_name(q.name) + 4

len_record(r) == len_domain_name(r.name) + 2 + 2 + 4 + 2 + len_data(r.data)

len_packet(pk) ==
    HeaderSize
    + SumSeq([i \in 1..Len(pk.question) |-> len_question(pk.question[i])])
    + SumSeq([i \in 1..Len(pk.answer) |-> len_record(pk.answer[i])])
    + SumSeq([i \in 1..Len(pk.authority) |-> len_record(pk.authority[i])])
    + SumSeq([i \in 1..Len(pk.additional) |-> len_record(pk.additional[i])])

----------------------------------------------------------------------------
(* Write cursor primitives (rust.rs WriteExt2 over io::Write for &mut [u8]) *)

(* write_all on a slice copies what fits, advances the window, and reports *)
(* an error when bytes are left over; every caller discards that result.   *)
(* The window only moves forward, so the bytes written so far are a prefix *)
(* of the caller's buffer: w.out holds them, w.cap is the buffer's length. *)
write_all(w, bytes) ==
    LET n == Min(Len(bytes), w.cap - Len(w.out)) IN
    [w EXCEPT !.out = @ \o SubSeq(bytes, 1, n)]

(* The position of the window, and the caller's buffer as the writes left it *)
Pos(w) == Len(w.out)
Buffer(w, buf) == w.out \o SubSeq(buf, Len(w.out) + 1, Len(buf))

write_u8(w, val) == write_all(w, <<val>>)

write_u16_be(w, val) == write_all(w, <<AsU8(val \div 256), AsU8(val)>>)

write_i16_be(w, val) == write_u16_be(w, AsU16(val))

write_u32_be(w, val) ==
    write_all(w, <<AsU8(val \div 16777216), AsU8(val \div 65536),
                   AsU8(val \div 256), AsU8(val)>>)

write_i32_be(w, val) == write_u32_be(w, AsU32(val))

----------------------------------------------------------------------------
(* Formatter (format.rs).  Every operator returns [err, w]: the error (or  *)
(* OkE) and the cursor as the call leaves it.                              *)

OkE == [tag |-> "Ok", n |-> 0]
SizeE == [tag |-> "Size", n |-> 0]
BufferE(n) == [tag |-> "Buffer", n |-> n]
LabelE(n) == [tag |-> "Label", n |-> n]
StringE(n) == [tag |-> "String", n |-> n]

(* try!(e); rest: the error of e, or rest run on the cursor e leaves *)
Then(r, rest(_)) == IF r.err # OkE THEN r ELSE rest(r.w)

Done(w) == [err |-> OkE, w |-> w]

(* the limit taken as exclusive *)
LabelTooLong_M(n) == n >= MaxLabel

LabelTooLong(n) == n > MaxLabel
StringTooLong(n) == n > MaxString

RECURSIVE format_labels(_, _, _)
format_labels(w, parts, i) ==
    IF i > Len(parts) THEN [err |-> OkE, w |-> write_u8(w, 0)]
    ELSE IF LabelTooLong(Len(parts[i]))
         THEN [err |-> LabelE(Len(parts[i])), w |-> w]
         ELSE format_labels(write_all(write_u8(w, AsU8(Len(parts[i]))), parts[i]),
                            parts, i + 1)

format_domain_name(w, s) == format_labels(w, split(s), 1)

format_character_string(w, s) ==
    IF StringTooLong(Len(s)) THEN [err |-> StringE(Len(s)), w |-> w]
    ELSE [err |-> OkE, w |-> write_all(write_u8(w, AsU8(Len(s))), s)]

RECURSIVE format_txt_from(_, _, _)
format_txt_from(w, s, i) ==
    IF i > Len(s) THEN Done(w)
    ELSE Then(format_character_string(w, s[i]), LAMBDA w1 : format_txt_from(w1, s, i + 1))

format_txt(w, s) == format_txt_from(w, s, 1)

format_a(w, ip) ==
    [err |-> OkE,
     w |-> write_u8(write_u8(write_u8(write_u8(w, ip[1]), ip[2]), ip[3]), ip[4])]

RECURSIVE format_segments(_, _, _)
format_segments(w, segs, i) ==
    IF i > Len(segs) THEN w ELSE format_segments(write_u16_be(w, segs[i]), segs, i + 1)

format_aaaa(w, ip) == [err |-> OkE, w |-> format_segments(w, ip, 1)]

format_mx(w, preference, domain) ==
    format_domain_name(write_i16_be(w, preference), domain)

format_ptr(w, domain) == format_domain_name(w, domain)

format_rp(w, mbox, txt) ==
    Then(format_domain_name(w, mbox), LAMBDA w1 : format_domain_name(w1, txt))

format_data(w, d) ==
    CASE d.tag = "A" -> format_a(w, d.ip)
      [] d.tag = "Aaaa" -> format_aaaa(w, d.ip)
      [] d.tag = "Mx" -> format_mx(w, d.preference, d.domain)
      [] d.tag = "Ptr" -> format_ptr(w, d.domain)
      [] d.tag = "Rp" -> format_rp(w, d.mbox, d.txt)
      [] d.tag = "Txt" -> format_txt(w, d.text)

format_question(w, q) ==
    Then(format_domain_name(w, q.name),
         LAMBDA w1 : Done(write_u16_be(write_u16_be(w1, TypeCode(q.ty)),
                                       ClassCode(q.class))))

(* The ghost log entry records where the rdata of the record starts and   *)
(* ends in the buffer; the 16-bit length field is the two bytes before it. *)
Logged(from, r) ==
    Then(r, LAMBDA w1 : Done([w1 EXCEPT !.log = Append(@, [from |-> from, to |-> Pos(w1)])]))

format_rdata(w, d) == Logged(Pos(w), format_data(w, d))

format_record(w, r) ==
    Then(format_domain_name(w, r.name),
         LAMBDA w0 :
            format_rdata(
                write_u16_be(
                    write_i32_be(
                        write_u16_be(
                            write_u16_be(w0, TypeCode(to_type(r.data))),
                            ClassCode(r.class)),
                        AsI32(num_seconds(r.time_to_live))),
                    AsU16(len_data(r.data))),
                r.data))

RECURSIVE format_questions(_, _, _)
format_questions(w, qs, i) ==
    IF i > Len(qs) THEN Done(w)
    ELSE Then(format_question(w, qs[i]), LAMBDA w1 : format_questions(w1, qs, i + 1))

RECURSIVE format_records(_, _, _)
format_records(w, rs, i) ==
    IF i > Len(rs) THEN Done(w)
    ELSE Then(format_record(w, rs[i]), LAMBDA w1 : format_records(w1, rs, i + 1))

Bit(b) == IF b THEN 1 ELSE 0

flags1(pk) ==
    AsU8(Bit(~pk.is_query) * 128 + KindCode(pk.kind) * 8
         + Bit(pk.is_authoritative) * 4 + Bit(pk.truncated) * 2
         + Bit(pk.recursion_desired))

flags2(pk) ==
    AsU8(Bit(pk.recursion_available) * 128 + ResponseCodeCode(pk.response_code))

format_header(w, pk) ==
    write_u16_be(
        write_u16_be(
            write_u16_be(
                write_u16_be(
                    write_u8(write_u8(write_i16_be(w, pk.id), flags1(pk)), flags2(pk)),
                    AsU16(Len(pk.question))),
                AsU16(Len(pk.answer))),
            AsU16(Len(pk.authority))),
        AsU16(Len(pk.additional)))

format_packet(w, pk) ==
    Then(format_questions(format_header(w, pk), pk.question, 1), LAMBDA w1 :
    Then(format_records(w1, pk.answer, 1), LAMBDA w2 :
    Then(format_records(w2, pk.authority, 1), LAMBDA w3 :
         format_records(w3, pk.additional, 1))))

(* the ceiling taken as exclusive *)
SizeExceeded_M(len) == len >= MaxPacket

SizeExceeded(len) == len > MaxPacket

(* a buffer of exactly the computed length refused *)
BufferTooSmall_M(len, cap) == len >= cap

BufferTooSmall(len, cap) == len > cap

(* Packet::format: [res, n, buf, log]: the error or Ok, the byte count     *)
(* returned on success, and the caller's buffer as the call leaves it.     *)
FormatResult(r, buf) ==
    [res |-> r.err, n |-> IF r.err = OkE THEN Pos(r.w) ELSE 0,
     buf |-> Buffer(r.w, buf), log |-> r.w.log]

CheckedFormat(pk, buf, len) ==
    IF SizeExceeded(len) THEN [res |-> SizeE, n |-> 0, buf |-> buf, log |-> <<>>]
    ELSE IF BufferTooSmall(len, Len(buf))
         THEN [res |-> BufferE(len), n |-> 0, buf |-> buf, log |-> <<>>]
         ELSE FormatResult(format_packet([cap |-> Len(buf), out |-> <<>>, log |-> <<>>], pk),
                           buf)

Packet_format(pk, buf) == CheckedFormat(pk, buf, len_packet(pk))

----------------------------------------------------------------------------
(* Read cursor primitives (rust.rs ReadExt2 over io::Read for &[u8]).      *)
(* read on a slice copies what is left into a zeroed array and advances by *)
(* what it copied, without error: bytes past the end read as zero.         *)

ByteAt(m, i) == IF i < Len(m) THEN m[i + 1] ELSE 0

read_u8(m, pos) == [v |-> ByteAt(m, pos), pos |-> Min(pos + 1, Len(m))]

read_u16_be(m, pos) ==
    [v |-> ByteAt(m, pos) * 256 + ByteAt(m, pos + 1), pos |-> Min(pos + 2, Len(m))]

read_i16_be(m, pos) ==
    LET r == read_u16_be(m, pos) IN [v |-> AsI16(r.v), pos |-> r.pos]

(* read_u32_be().map(|v| v as i32): the word as its signed value *)
read_i32_be(m, pos) ==
    LET b0 == ByteAt(m, pos) IN
    [v |-> (IF b0 >= 128 THEN b0 - 256 ELSE b0) * 16777216
           + ByteAt(m, pos + 1) * 65536 + ByteAt(m, pos + 2) * 256 + ByteAt(m, pos + 3),
     pos |-> Min(pos + 4, Len(m))]

----------------------------------------------------------------------------
(* str::from_utf8: well-formed UTF-8 (no overlong forms, no surrogates,    *)
(* nothing above U+10FFFF)                                                 *)

Cont(b) == b >= 128 /\ b <= 191

(* The length of the character a lead byte starts; 0 for a byte that       *)
(* starts none                                                             *)
CharLen(c) ==
    IF c <= 127 THEN 1
    ELSE IF c >= 194 /\ c <= 223 THEN 2
    ELSE IF c >= 224 /\ c <= 239 THEN 3
    ELSE IF c >= 240 /\ c <= 244 THEN 4
    ELSE 0

(* A lead byte at i is followed by its continuation bytes, the first one   *)
(* within the range that excludes overlong forms, surrogates and values    *)
(* above U+10FFFF                                                          *)
LeadOk(b, i) ==
    LET c == b[i]
        k == CharLen(c)
    IN /\ k >= 1
       /\ i + k - 1 <= Len(b)
       /\ \A j \in (i + 1)..(i + k - 1) : Cont(b[j])
       /\ (c = 224 => b[i + 1] >= 160)
       /\ (c = 237 => b[i + 1] <= 159)
       /\ (c = 240 => b[i + 1] >= 144)
       /\ (c = 244 => b[i + 1] <= 143)

(* A continuation byte at i belongs to the character of a lead byte at     *)
(* most three places before it                                             *)
ContOk(b, i) ==
    \E j \in 1..(i - 1) :
        /\ i - j <= 3
        /\ CharLen(b[j]) > i - j
        /\ \A k \in (j + 1)..i : Cont(b[k])

from_utf8(b) ==
    \A i \in 1..Len(b) : IF Cont(b[i]) THEN ContOk(b, i) ELSE LeadOk(b, i)

----------------------------------------------------------------------------
(* Parser (parse.rs).  A call returns a record with st: "ok", "err" (the   *)
(* call returned Err), or "overflow" (the call never returns: unbounded    *)
(* recursion exhausts the stack and the process is aborted).               *)

parse_kind(k) ==
    CASE k = 0 -> [ok |-> TRUE, v |-> "Standard"]
      [] k = 1 -> [ok |-> TRUE, v |-> "Inverse"]
      [] k = 2 -> [ok |-> TRUE, v |-> "Status"]
      [] OTHER -> [ok |-> FALSE, v |-> "none"]

parse_response_code(c) ==
    CASE c = 0 -> [ok |-> TRUE, v |-> "Ok"]
      [] c = 1 -> [ok |-> TRUE, v |-> "FormatError"]
      [] c = 2 -> [ok |-> TRUE, v |-> "ServerFailure"]
      [] c = 3 -> [ok |-> TRUE, v |-> "NameError"]
      [] c = 4 -> [ok |-> TRUE, v |-> "NotImplemented"]
      [] c = 5 -> [ok |-> TRUE, v |-> "Refused"]
      [] OTHER -> [ok |-> FALSE, v |-> "none"]

parse_ty(m, pos) ==
    LET r == read_u16_be(m, pos)
        t == CASE r.v = A -> "A" [] r.v = AAAA -> "Aaaa" [] r.v = MX -> "Mx"
               [] r.v = PTR -> "Ptr" [] r.v = RP -> "Rp" [] r.v = TXT -> "Txt"
               [] r.v = ALL -> "All" [] OTHER -> "none"
    IN [ok |-> t # "none", v |-> t, pos |-> r.pos]

parse_class(m, pos) ==
    LET r == read_u16_be(m, pos)
        c == CASE r.v = CLASS_IN -> "In" [] r.v = ALL -> "All" [] OTHER -> "none"
    IN [ok |-> c # "none", v |-> c, pos |-> r.pos]

(* The recursion of domain_name has no bound in the code.  A call is       *)
(* determined by the offset it starts at, so a chain of pointers that ends *)
(* is followed to its end whatever its length, and a call that starts at   *)
(* the offset of a call in progress repeats it: the recursion never        *)
(* returns and exhausts the stack.  calls is the set of the offsets the    *)
(* calls in progress started at.                                           *)
Unbounded(calls, offset) == offset \in calls

PointerOutside(m, offset) == Len(m) < offset

(* the two bytes of the offset taken in the wrong order *)
PointerOffset_M(len, b2) == (b2 * 256 + (len % 64)) % 16384

(* ((len & 0b0011_1111) << 8) | b2 *)
PointerOffset(len, b2) == (len % 64) * 256 + b2

(* domain_name(src, start): m is the message (start), pos the cursor, res  *)
(* the text decoded so far by this call, calls the offsets at which this   *)
(* call and the calls it is nested in started.                             *)
RECURSIVE domain_name_loop(_, _, _, _)
domain_name_loop(m, pos, res, calls) ==
    LET l == read_u8(m, pos)
        len == l.v
        res1 == IF Len(res) > 0 THEN Append(res, DOT) ELSE res
    IN
    IF len = 0 THEN [st |-> "ok", pos |-> l.pos, s |-> res]
    ELSE IF len >= 64
         THEN IF len >= 192
              THEN LET b2 == read_u8(m, l.pos)
                       offset == PointerOffset(len, b2.v)
                   IN IF PointerOutside(m, offset)
                      THEN [st |-> "err", pos |-> b2.pos, s |-> <<>>]
                      ELSE IF Unbounded(calls, offset)
                      THEN [st |-> "overflow", pos |-> b2.pos, s |-> <<>>]
                      ELSE LET t == domain_name_loop(m, offset, <<>>,
                                                     calls \cup {offset}) IN
                           IF t.st # "ok"
                           THEN [st |-> t.st, pos |-> b2.pos, s |-> <<>>]
                           ELSE [st |-> "ok", pos |-> b2.pos, s |-> res1 \o t.s]
              ELSE [st |-> "err", pos |-> l.pos, s |-> <<>>]
         ELSE IF Len(m) - l.pos < len
              THEN [st |-> "err", pos |-> l.pos, s |-> <<>>]
              ELSE LET bytes == SubSeq(m, l.pos + 1, l.pos + len) IN
                   IF ~from_utf8(bytes)
                   THEN [st |-> "err", pos |-> l.pos + len, s |-> <<>>]
                   ELSE domain_name_loop(m, l.pos + len, res1 \o bytes, calls)

domain_name(m, pos) == domain_name_loop(m, pos, <<>>, {pos})

character_string(m, pos) ==
    LET l == read_u8(m, pos) IN
    IF Len(m) - l.pos < l.v THEN [st |-> "err", pos |-> l.pos, s |-> <<>>]
    ELSE LET bytes == SubSeq(m, l.pos + 1, l.pos + l.v) IN
         IF from_utf8(bytes) THEN [st |-> "ok", pos |-> l.pos + l.v, s |-> bytes]
         ELSE [st |-> "err", pos |-> l.pos + l.v, s |-> <<>>]

RECURSIVE txt_loop(_, _, _, _, _)
txt_loop(m, pos, total_len, cur_len, res) ==
    IF ~(cur_len < total_len)
    THEN [st |-> "ok", pos |-> pos, data |-> [tag |-> "Txt", text |-> res]]
    ELSE LET t == character_string(m, pos) IN
         IF t.st # "ok" THEN [st |-> "err", pos |-> t.pos]
         ELSE txt_loop(m, t.pos, total_len, cur_len + Len(t.s) + 1, Append(res, t.s))

parse_txt(m, pos, total_len) == txt_loop(m, pos, total_len, 0, <<>>)

parse_a(m, pos) ==
    IF Len(m) - pos < 4 THEN [st |-> "err", pos |-> pos]
    ELSE [st |-> "ok", pos |-> pos + 4,
          data |-> [tag |-> "A", ip |-> SubSeq(m, pos + 1, pos + 4)]]

parse_aaaa(m, pos) ==
    IF Len(m) - pos < 16 THEN [st |-> "err", pos |-> pos]
    ELSE [st |-> "ok", pos |-> pos + 16,
          data |-> [tag |-> "Aaaa",
                    ip |-> [i \in 1..8 |-> read_u16_be(m, pos + 2 * (i - 1)).v]]]

mx_after_preference(m, preference, domain) ==
    IF domain.st # "ok" THEN [st |-> domain.st, pos |-> domain.pos]
    ELSE [st |-> "ok", pos |-> domain.pos,
          data |-> [tag |-> "Mx", preference |-> preference, domain |-> domain.s]]

parse_mx(m, pos) ==
    mx_after_preference(m, read_i16_be(m, pos).v,
                        domain_name(m, read_i16_be(m, pos).pos))

ptr_after_name(domain) ==
    IF domain.st # "ok" THEN [st |-> domain.st, pos |-> domain.pos]
    ELSE [st |-> "ok", pos |-> domain.pos, data |-> [tag |-> "Ptr", domain |-> domain.s]]

parse_ptr(m, pos) == ptr_after_name(domain_name(m, pos))

rp_after_txt(mbox, txt) ==
    IF txt.st # "ok" THEN [st |-> txt.st, pos |-> txt.pos]
    ELSE [st |-> "ok", pos |-> txt.pos,
          data |-> [tag |-> "Rp", mbox |-> mbox.s, txt |-> txt.s]]

rp_after_mbox(m, mbox) ==
    IF mbox.st # "ok" THEN [st |-> mbox.st, pos |-> mbox.pos]
    ELSE rp_after_txt(mbox, domain_name(m, mbox.pos))

parse_rp(m, pos) == rp_after_mbox(m, domain_name(m, pos))

(* question and record return st: "ok" (Ok), "skip" (Err(true)), "abort"   *)
(* (Err(false)) or "overflow", the cursor, and a ghost event ev recording  *)
(* where the entry started, where its name ended, where its rdata starts,  *)
(* the declared rdata length, and where the cursor was left.               *)
Event(st, start, nameend, rdstart, rdlen, end, ty) ==
    [st |-> st, start |-> start, nameend |-> nameend, rdstart |-> rdstart,
     rdlen |-> rdlen, end |-> end, ty |-> ty]

Aborted(st) == IF st = "err" THEN "abort" ELSE st

QuestionUnknown(tyok, classok) == ~tyok \/ ~classok

question_after_name(m, pos, name) ==
    IF name.st # "ok"
    THEN [st |-> Aborted(name.st), pos |-> name.pos,
          ev |-> Event(Aborted(name.st), pos, name.pos, name.pos, 0, name.pos, "none")]
    ELSE LET ty == parse_ty(m, name.pos)
             class == parse_class(m, ty.pos)
         IN IF QuestionUnknown(ty.ok, class.ok)
            THEN [st |-> "skip", pos |-> class.pos,
                  ev |-> Event("skip", pos, name.pos, class.pos, 0, class.pos, ty.v)]
            ELSE [st |-> "ok", pos |-> class.pos,
                  q |-> [name |-> name.s, ty |-> ty.v, class |-> class.v],
                  ev |-> Event("ok", pos, name.pos, class.pos, 0, class.pos, ty.v)]

parse_question(m, pos) == question_after_name(m, pos, domain_name(m, pos))

(* rdata that ends where the message ends refused *)
SkipFits_M(m, pos, len) == len < Len(m) - pos

SkipFits(m, pos, len) == len <= Len(m) - pos

parse_data(m, pos, ty, len) ==
    CASE ty = "A" -> parse_a(m, pos)
      [] ty = "Aaaa" -> parse_aaaa(m, pos)
      [] ty = "Mx" -> parse_mx(m, pos)
      [] ty = "Ptr" -> parse_ptr(m, pos)
      [] ty = "Rp" -> parse_rp(m, pos)
      [] ty = "Txt" -> parse_txt(m, pos, len)
      [] ty = "All" -> [st |-> "err", pos |-> pos]

(* the end of record: the rdata decoded (or not) by the match on the type *)
record_after_data(pos, name, ty, class, ttl, len, data) ==
    IF data.st # "ok"
    THEN [st |-> Aborted(data.st), pos |-> data.pos,
          ev |-> Event(Aborted(data.st), pos, name.pos, len.pos, len.v, data.pos, ty.v)]
    ELSE [st |-> "ok", pos |-> data.pos,
          r |-> [name |-> name.s, class |-> class.v,
                 time_to_live |-> seconds(ttl.v), data |-> data.data],
          ev |-> Event("ok", pos, name.pos, len.pos, len.v, data.pos, ty.v)]

record_after_name(m, pos, name) ==
    IF name.st # "ok"
    THEN [st |-> Aborted(name.st), pos |-> name.pos,
          ev |-> Event(Aborted(name.st), pos, name.pos, name.pos, 0, name.pos, "none")]
    ELSE LET ty == parse_ty(m, name.pos)
             class == parse_class(m, ty.pos)
             ttl == read_i32_be(m, class.pos)
             len == read_u16_be(m, ttl.pos)
         IN IF ~ty.ok \/ ~class.ok
            THEN IF SkipFits(m, len.pos, len.v)
                 THEN [st |-> "skip", pos |-> len.pos + len.v,
                       ev |-> Event("skip", pos, name.pos, len.pos, len.v,
                                    len.pos + len.v, ty.v)]
                 ELSE [st |-> "abort", pos |-> len.pos,
                       ev |-> Event("abort", pos, name.pos, len.pos, len.v, len.pos, ty.v)]
            ELSE record_after_data(pos, name, ty, class, ttl, len,
                                   parse_data(m, len.pos, ty.v, len.v))

parse_record(m, pos) == record_after_name(m, pos, domain_name(m, pos))

(* `for _ in 0..n { match question(src, start) { ... } }` and the same for *)
(* records: [st, pos, items, log].  Ok pushes, Err(true) goes on to the    *)
(* next entry, Err(false) returns Err(()).                                 *)
RECURSIVE parse_questions(_, _, _, _, _)
question_arm(m, n, items, log, r) ==
    CASE r.st = "ok" ->
           parse_questions(m, r.pos, n - 1, Append(items, r.q), Append(log, r.ev))
      [] r.st = "skip" ->
           parse_questions(m, r.pos, n - 1, items, Append(log, r.ev))
      [] OTHER ->
           [st |-> IF r.st = "abort" THEN "err" ELSE r.st, pos |-> r.pos,
            items |-> items, log |-> Append(log, r.ev)]

parse_questions(m, pos, n, items, log) ==
    IF n = 0 THEN [st |-> "ok", pos |-> pos, items |-> items, log |-> log]
    ELSE question_arm(m, n, items, log, parse_question(m, pos))

RECURSIVE parse_records(_, _, _, _, _)
record_arm(m, n, items, log, r) ==
    CASE r.st = "ok" ->
           parse_records(m, r.pos, n - 1, Append(items, r.r), Append(log, r.ev))
      [] r.st = "skip" ->
           parse_records(m, r.pos, n - 1, items, Append(log, r.ev))
      [] OTHER ->
           [st |-> IF r.st = "abort" THEN "err" ELSE r.st, pos |-> r.pos,
            items |-> items, log |-> Append(log, r.ev)]

parse_records(m, pos, n, items, log) ==
    IF n = 0 THEN [st |-> "ok", pos |-> pos, items |-> items, log |-> log]
    ELSE record_arm(m, n, items, log, parse_record(m, pos))

NoLogs == [question |-> <<>>, answer |-> <<>>, authority |-> <<>>, additional |-> <<>>]

(* a mask of three bits for the kind *)
KindBits_M(flags) == (flags \div 2048) % 8

(* (flags & 0b0111_1000_0000_0000) >> 11 *)
KindBits(flags) == (flags \div 2048) % 16

(* The 12-byte header: the fields, the four counts and the cursor *)
parse_header(m) ==
    LET id == read_i16_be(m, 0)
        flags == read_u16_be(m, id.pos)
        kind == parse_kind(KindBits(flags.v))
        response_code == parse_response_code(flags.v % 16)
        num_questions == read_u16_be(m, flags.pos)
        num_answers == read_u16_be(m, num_questions.pos)
        num_authority == read_u16_be(m, num_answers.pos)
        num_additional == read_u16_be(m, num_authority.pos)
    IN [ok |-> kind.ok /\ response_code.ok,
        id |-> id.v,
        is_query |-> (flags.v \div 32768) % 2 = 0,
        kind |-> kind.v,
        is_authoritative |-> (flags.v \div 1024) % 2 # 0,
        truncated |-> (flags.v \div 512) % 2 # 0,
        recursion_desired |-> (flags.v \div 256) % 2 # 0,
        recursion_available |-> (flags.v \div 128) % 2 # 0,
        response_code |-> response_code.v,
        num_questions |-> num_questions.v, num_answers |-> num_answers.v,
        num_authority |-> num_authority.v, num_additional |-> num_additional.v,
        pos |-> num_additional.pos]

Failed(st, log) == [st |-> st, pos |-> 0, log |-> log]

(* parse::packet: [st, pos, packet, log]; log holds, per section, the     *)
(* events of the entries the loops went through.                           *)
packet_after_header(m, h) ==
    LET after_additional(q, a, u, d) ==
            IF d.st # "ok"
            THEN Failed(d.st, [question |-> q.log, answer |-> a.log,
                               authority |-> u.log, additional |-> d.log])
            ELSE [st |-> "ok", pos |-> d.pos,
                  log |-> [question |-> q.log, answer |-> a.log,
                           authority |-> u.log, additional |-> d.log],
                  packet |->
                    [id |-> h.id, is_query |-> h.is_query, kind |-> h.kind,
                     is_authoritative |-> h.is_authoritative,
                     truncated |-> h.truncated,
                     recursion_desired |-> h.recursion_desired,
                     recursion_available |-> h.recursion_available,
                     response_code |-> h.response_code,
                     question |-> q.items, answer |-> a.items,
                     authority |-> u.items, additional |-> d.items]]
        after_authority(q, a, u) ==
            IF u.st # "ok"
            THEN Failed(u.st, [NoLogs EXCEPT !.question = q.log, !.answer = a.log,
                                             !.authority = u.log])
            ELSE after_additional(q, a, u,
                     parse_records(m, u.pos, h.num_additional, <<>>, <<>>))
        after_answers(q, a) ==
            IF a.st # "ok"
            THEN Failed(a.st, [NoLogs EXCEPT !.question = q.log, !.answer = a.log])
            ELSE after_authority(q, a,
                     parse_records(m, a.pos, h.num_authority, <<>>, <<>>))
        after_questions(q) ==
            IF q.st # "ok"
            THEN Failed(q.st, [NoLogs EXCEPT !.question = q.log])
            ELSE after_answers(q, parse_records(m, q.pos, h.num_answers, <<>>, <<>>))
    IN IF ~h.ok THEN Failed("err", NoLogs)
       ELSE after_questions(parse_questions(m, h.pos, h.num_questions, <<>>, <<>>))

parse_packet(m) == packet_after_header(m, parse_header(m))

(* Packet::parse: on Ok, n is the number of bytes read *)
ParseResult(r) ==
    IF r.st = "ok" THEN [st |-> "ok", n |-> r.pos, packet |-> r.packet, log |-> r.log]
    ELSE [st |-> r.st, n |-> 0, log |-> r.log]

Packet_parse(m) == ParseResult(parse_packet(m))

----------------------------------------------------------------------------
(* The values the caller builds packets from *)

FillByte == 170

N_abc == <<97, 46, 98, 99>>        \* "a.bc"
N_a == <<97>>                      \* "a"
N_utf8 == <<195, 169>>             \* one two-byte UTF-8 character
N_root == <<>>                     \* "", the root name
N_dot == <<97, 46>>                \* "a.", a trailing dot
N_l63 == Rep(MaxLabel, 120)        \* one label of 63 bytes
N_l64 == Rep(MaxLabel + 1, 120)    \* one label of 64 bytes
S_255 == Rep(MaxString, 115)       \* a text entry of 255 bytes
S_256 == Rep(MaxString + 1, 115)   \* a text entry of 256 bytes
S_fill == Rep(216, 102)            \* brings a packet to 512 bytes beside S_255

Questions ==
    { [name |-> N_abc, ty |-> "A", class |-> "In"],
      [name |-> N_root, ty |-> "All", class |-> "All"],
      [name |-> N_l64, ty |-> "Ptr", class |-> "In"] }

Records ==
    { [name |-> N_abc, class |-> "In", time_to_live |-> seconds(300),
       data |-> [tag |-> "A", ip |-> <<93, 184, 216, 34>>]],
      [name |-> N_l63, class |-> "All", time_to_live |-> seconds(-1),
       data |-> [tag |-> "Aaaa", ip |-> <<8193, 3512, 0, 0, 0, 0, 0, 65535>>]],
      [name |-> N_utf8, class |-> "In", time_to_live |-> seconds(0),
       data |-> [tag |-> "Mx", preference |-> -2, domain |-> N_abc]],
      [name |-> N_a, class |-> "In", time_to_live |-> seconds(2147483647),
       data |-> [tag |-> "Ptr", domain |-> N_dot]],
      [name |-> N_a, class |-> "In", time_to_live |-> seconds(60),
       data |-> [tag |-> "Rp", mbox |-> N_a, txt |-> N_l64]],
      [name |-> N_a, class |-> "In", time_to_live |-> seconds(60),
       data |-> [tag |-> "Rp", mbox |-> N_abc, txt |-> N_utf8]],
      [name |-> N_a, class |-> "In", time_to_live |-> seconds(60),
       data |-> [tag |-> "Txt", text |-> <<S_255>>]],
      [name |-> N_a, class |-> "In", time_to_live |-> seconds(60),
       data |-> [tag |-> "Txt", text |-> <<S_256>>]],
      [name |-> N_abc, class |-> "In", time_to_live |-> [secs |-> 1, nanos |-> 500000000],
       data |-> [tag |-> "A", ip |-> <<10, 0, 0, 1>>]],
      [name |-> N_a, class |-> "All", time_to_live |-> seconds(-2147483647),
       data |-> [tag |-> "Txt", text |-> << <<>>, S_fill >>]] }

Headers ==
    { query(12345),
      [query(-1) EXCEPT !.is_query = FALSE, !.kind = "Status",
                        !.is_authoritative = TRUE, !.truncated = TRUE,
                        !.recursion_desired = FALSE, !.recursion_available = TRUE,
                        !.response_code = "Refused"] }

NumEntries(pk) ==
    Len(pk.question) + Len(pk.answer) + Len(pk.authority) + Len(pk.additional)

(* The capacities of the buffers the caller formats into *)
Capacities(pk) ==
    LET l == len_packet(pk) IN {0, l - 1, l, l + 1, MaxPacket} \ {-1}

----------------------------------------------------------------------------
(* The datagrams the caller receives: wire messages assembled from a       *)
(* recipe.  A recipe lists, per section, how each entry is written: the    *)
(* form of its name, its type and class codes, and for a record its ttl,   *)
(* its rdata and whether the declared rdata length is the exact one.       *)

N_example == <<101, 120, 97, 109, 112, 108, 101, 46, 99, 111, 109>>  \* "example.com"
W_example == <<7, 101, 120, 97, 109, 112, 108, 101, 3, 99, 111, 109, 0>>
N_www == <<119, 119, 119>>                                           \* "www"

U16(v) == <<(v \div 256) % 256, v % 256>>
I32(v) == <<(v \div 16777216) % 256, (v \div 65536) % 256, (v \div 256) % 256, v % 256>>
Pointer(offset) == <<192 + (offset \div 256), offset % 256>>

(* k pointers, each to the next, then the name "end" *)
N_end == <<101, 110, 100>>

RECURSIVE ChainWire(_, _)
ChainWire(at, k) ==
    IF k = 0 THEN <<3>> \o N_end \o <<0>>
    ELSE Pointer(at + 2) \o ChainWire(at + 2, k - 1)

(* where the rdata of the first answer starts when its name is a pointer *)
ChainAt == HeaderSize + Len(W_example) + 4 + 2 + 10

(* The bytes of a name of the given form that starts at offset `at` of a   *)
(* message of `total` bytes                                                *)
EncName(form, at, total) ==
    CASE form = "plain"   -> W_example
      [] form = "tochain" -> Pointer(ChainAt)
      [] form = "root"    -> <<0>>
      [] form = "ptr"     -> Pointer(HeaderSize)
      [] form = "lblptr"  -> <<3>> \o N_www \o Pointer(HeaderSize)
      [] form = "self"    -> Pointer(at)
      [] form = "mutual"  -> Pointer(at + 2) \o Pointer(at)
      [] form = "lblself" -> <<1, 97>> \o Pointer(at)
      [] form = "beyond"  -> Pointer(total + 1)
      [] form = "atend"   -> Pointer(total)
      [] form = "badbits" -> <<65, 97, 0>>
      [] form = "short"   -> <<63, 97>>
      [] form = "badutf8" -> <<1, 255, 0>>

(* rdata: an address, an exchange whose name is a pointer, or opaque bytes *)
EncRdata(form, at, total) ==
    CASE form = "a"      -> <<93, 184, 216, 34>>
      [] form = "mx"     -> U16(10) \o Pointer(HeaderSize)
      [] form = "opaque" -> <<222, 173, 190>>
      [] form = "none"   -> <<>>
      [] form = "chain"  -> ChainWire(at, ChainHops)
      [] form = "a_pad"  -> <<93, 184, 216, 34, 0>>
      [] form = "a_under" -> <<93, 184, 216, 34>>
      [] form = "aaaa"   -> <<32, 1, 13, 184, 0, 0, 0, 0, 0, 0, 0, 0, 0, 0, 0, 1>>
      [] form = "aaaa_pad" -> <<32, 1, 13, 184, 0, 0, 0, 0, 0, 0, 0, 0, 0, 0, 0, 1, 0>>
      [] form = "mx_pad" -> U16(10) \o Pointer(HeaderSize) \o <<0>>
      [] form = "name"   -> Pointer(HeaderSize)
      [] form = "name_pad" -> Pointer(HeaderSize) \o <<0>>
      [] form = "rp"     -> Pointer(HeaderSize) \o W_example
      [] form = "rp_pad" -> Pointer(HeaderSize) \o W_example \o <<0>>
      [] form = "txt"    -> <<2, 97, 98, 1, 99>>
      [] form = "txt_empty" -> <<>>
      [] form = "txt_one" -> <<0>>
      [] form = "txt_mid" -> <<2, 97, 98, 2, 99, 100>>
      [] form = "txt_over" -> <<2, 97, 98>>

(* The rdata length a record declares when its rdata of n bytes follows in *)
(* full: n, except for the forms written to declare another length         *)
DeclaredFor(form, n) ==
    CASE form = "a_under"  -> n - 1
      [] form = "txt_mid"  -> n - 2
      [] form = "txt_over" -> n + 2
      [] OTHER             -> n

EncQuestion(q, at, total) == EncName(q.name, at, total) \o U16(q.ty) \o U16(q.cl)

EncRecord(r, at, total) ==
    LET n == EncName(r.name, at, total)
        rdstart == at + Len(n) + 10
        rd == EncRdata(r.rdata, rdstart, total)
        declared == IF r.exact THEN DeclaredFor(r.rdata, Len(rd)) ELSE total - rdstart + 1
    IN n \o U16(r.ty) \o U16(r.cl) \o I32(r.ttl) \o U16(declared) \o rd

RECURSIVE EncQuestions(_, _, _, _)
EncQuestions(qs, i, at, total) ==
    IF i > Len(qs) THEN <<>>
    ELSE LET e == EncQuestion(qs[i], at, total)
         IN e \o EncQuestions(qs, i + 1, at + Len(e), total)

RECURSIVE EncRecords(_, _, _, _)
EncRecords(rs, i, at, total) ==
    IF i > Len(rs) THEN <<>>
    ELSE LET e == EncRecord(rs[i], at, total)
         IN e \o EncRecords(rs, i + 1, at + Len(e), total)

WireWith(rc, total) ==
    LET h == <<48, 57, 129, 128>> \o U16(Len(rc.question)) \o U16(Len(rc.answer))
             \o U16(Len(rc.authority)) \o U16(Len(rc.additional))
        q == EncQuestions(rc.question, 1, HeaderSize, total)
        a == EncRecords(rc.answer, 1, HeaderSize + Len(q), total)
        u == EncRecords(rc.authority, 1, HeaderSize + Len(q) + Len(a), total)
        d == EncRecords(rc.additional, 1, HeaderSize + Len(q) + Len(a) + Len(u), total)
    IN h \o q \o a \o u \o d

(* The length of an entry does not depend on the offsets written in it *)
Wire(rc) == WireWith(rc, Len(WireWith(rc, 0)))

GoodQuestion == [name |-> "plain", ty |-> A, cl |-> CLASS_IN]
GoodRecord ==
    [name |-> "ptr", ty |-> A, cl |-> CLASS_IN, ttl |-> 300, rdata |-> "a", exact |-> TRUE]

QuestionForms == {"plain", "root", "badbits", "short", "badutf8", "self", "beyond"}
RecordForms == {"plain", "ptr", "lblptr", "self", "mutual", "lblself", "beyond", "atend"}
TypeCodes == {A, MX, ALL, 99, 0}
ClassCodes == {CLASS_IN, ALL, 7}

RdataOf(ty) == IF ty = A THEN "a" ELSE IF ty = MX THEN "mx" ELSE "opaque"

(* One question of any form and codes, alone or followed by a good one *)
QuestionRecipes ==
    { [kind |-> "crafted", question |-> <<[name |-> n, ty |-> t, cl |-> c]>> \o more,
       answer |-> <<>>, authority |-> <<>>, additional |-> <<>>] :
        n \in QuestionForms, t \in TypeCodes, c \in ClassCodes,
        more \in {<<>>, <<GoodQuestion>>} }

(* A good question, then one record of any form and codes, alone or        *)
(* followed by a good record in the same or in a later section             *)
RecordRecipes ==
    { [kind |-> "crafted", question |-> <<GoodQuestion>>,
       answer |-> <<[name |-> n, ty |-> t, cl |-> c, ttl |-> -5,
                     rdata |-> RdataOf(t), exact |-> e]>> \o more[1],
       authority |-> more[2], additional |-> more[3]] :
        n \in RecordForms, t \in TypeCodes, c \in {CLASS_IN, 7}, e \in BOOLEAN,
        more \in {<< <<>>, <<>>, <<>> >>, << <<GoodRecord>>, <<>>, <<>> >>,
                  << <<>>, <<GoodRecord>>, <<>> >>, << <<>>, <<>>, <<GoodRecord>> >>} }

(* A good question and a good answer, then one record of some form and     *)
(* codes in the authority or in the additional section, alone or followed  *)
(* by a good record                                                        *)
SectionRecipes ==
    { [kind |-> "crafted", question |-> <<GoodQuestion>>, answer |-> <<GoodRecord>>,
       authority |-> IF inAuthority THEN <<x>> ELSE <<>>,
       additional |-> (IF inAuthority THEN <<>> ELSE <<x>>) \o more] :
        x \in { [name |-> n, ty |-> t, cl |-> c, ttl |-> -5,
                 rdata |-> RdataOf(t), exact |-> e] :
                    n \in {"plain", "lblptr", "beyond"}, t \in {A, 99},
                    c \in {CLASS_IN, 7}, e \in BOOLEAN },
        inAuthority \in BOOLEAN,
        more \in {<<>>, <<GoodRecord>>} }

Recipes == QuestionRecipes \cup RecordRecipes \cup SectionRecipes

(* A good question, then one record of a recognized type whose rdata is    *)
(* written exactly, with a byte of padding counted in the declared length, *)
(* or with a declared length that is not where its content ends; alone or  *)
(* followed by a good record in the same or in the additional section      *)
TypedForms ==
    { <<A, "a">>, <<A, "a_pad">>, <<A, "a_under">>, <<AAAA, "aaaa">>, <<AAAA, "aaaa_pad">>,
      <<MX, "mx">>, <<MX, "mx_pad">>, <<PTR, "name">>, <<PTR, "name_pad">>,
      <<RP, "rp">>, <<RP, "rp_pad">>,
      <<TXT, "txt">>, <<TXT, "txt_empty">>, <<TXT, "txt_one">>, <<TXT, "txt_mid">>,
      <<TXT, "txt_over">> }

TypedRecipes ==
    { [kind |-> "typed", question |-> <<GoodQuestion>>,
       answer |-> <<[name |-> "ptr", ty |-> f[1], cl |-> CLASS_IN, ttl |-> 60,
                     rdata |-> f[2], exact |-> TRUE]>> \o more[1],
       authority |-> <<>>, additional |-> more[2]] :
        f \in TypedForms,
        more \in {<< <<>>, <<>> >>, << <<GoodRecord>>, <<>> >>, << <<>>, <<GoodRecord>> >>} }

(* A header alone: the two flag bytes take the values that set each bit    *)
(* and each value of the kind and of the response code                     *)
FlagBytes1 == {0, 1, 2, 4, 8, 16, 24, 32, 64, 72, 128, 135, 151, 255}
FlagBytes2 == {0, 1, 2, 3, 4, 5, 6, 15, 16, 112, 117, 128, 133, 134}

HeaderRecipes ==
    { [kind |-> "header", id |-> i, f1 |-> a, f2 |-> b] :
        i \in {<<48, 57>>, <<255, 254>>}, a \in FlagBytes1, b \in FlagBytes2 }

HeaderWire(rc) == rc.id \o <<rc.f1, rc.f2>> \o U16(0) \o U16(0) \o U16(0) \o U16(0)

(* A response with one question and one answer, both names written in     *)
(* full, of which only the first `at` bytes arrive                         *)
CutBase ==
    [kind |-> "crafted", question |-> <<GoodQuestion>>,
     answer |-> <<[name |-> "plain", ty |-> A, cl |-> CLASS_IN, ttl |-> 300,
                   rdata |-> "a", exact |-> TRUE]>>,
     authority |-> <<>>, additional |-> <<>>]

CutRecipes == { [kind |-> "cut", at |-> n] : n \in 0..(Len(Wire(CutBase)) - 1) }

(* A record of an unrecognized type whose rdata holds a chain of pointers  *)
(* that ends, then a record whose name is a pointer to the chain           *)
ChainRecipes ==
    { [kind |-> "chain", question |-> <<GoodQuestion>>,
       answer |-> <<[name |-> "ptr", ty |-> 99, cl |-> CLASS_IN, ttl |-> 0,
                     rdata |-> "chain", exact |-> TRUE],
                    [name |-> "tochain", ty |-> t, cl |-> CLASS_IN, ttl |-> 300,
                     rdata |-> RdataOf(t), exact |-> TRUE]>>,
       authority |-> <<>>, additional |-> <<>>] : t \in {A, MX} }

Datagrams == Recipes \cup TypedRecipes \cup HeaderRecipes \cup CutRecipes \cup ChainRecipes

(* the bytes of the datagram a recipe stands for *)
Datagram(rc) ==
    CASE rc.kind = "header" -> HeaderWire(rc)
      [] rc.kind = "cut"    -> SubSeq(Wire(CutBase), 1, rc.at)
      [] OTHER              -> Wire(rc)

NoFormat == [res |-> [tag |-> "None", n |-> 0], n |-> 0, log |-> <<>>]
NoParse == [st |-> "none", n |-> 0, log |-> NoLogs]
NoCraft == [kind |-> "none"]

----------------------------------------------------------------------------
(* The state machine: a caller builds a packet by appending to its         *)
(* sequences and formats it into a buffer.  It may parse the bytes written *)
(* back; query_int sends them, receives the datagram of the peer into the  *)
(* same buffer and parses that.                                            *)

Init ==
    /\ p \in Headers
    /\ dst = <<>>
    /\ fres = NoFormat
    /\ src = <<>>
    /\ craft = NoCraft
    /\ pres = NoParse
    /\ pc = "build"

PushQuestion(q) ==
    /\ pc = "build"
    /\ NumEntries(p) < MaxEntries
    /\ p' = [p EXCEPT !.question = Append(@, q)]
    /\ UNCHANGED <<dst, fres, src, craft, pres, pc>>

PushAnswer(r) ==
    /\ pc = "build"
    /\ NumEntries(p) < MaxEntries
    /\ p' = [p EXCEPT !.answer = Append(@, r)]
    /\ UNCHANGED <<dst, fres, src, craft, pres, pc>>

PushAuthority(r) ==
    /\ pc = "build"
    /\ NumEntries(p) < MaxEntries
    /\ p' = [p EXCEPT !.authority = Append(@, r)]
    /\ UNCHANGED <<dst, fres, src, craft, pres, pc>>

PushAdditional(r) ==
    /\ pc = "build"
    /\ NumEntries(p) < MaxEntries
    /\ p' = [p EXCEPT !.additional = Append(@, r)]
    /\ UNCHANGED <<dst, fres, src, craft, pres, pc>>

(* packet.format(&mut buf) on a buffer of capacity c *)
Format(c) ==
    /\ pc = "build"
    /\ \E r \in {Packet_format(p, Rep(c, FillByte))} :
       /\ dst' = r.buf
       /\ fres' = [res |-> r.res, n |-> r.n, log |-> r.log]
    /\ pc' = "formatted"
    /\ UNCHANGED <<p, src, craft, pres>>

(* Packet::parse(&buf[..n]) by a caller that reads back what              *)
(* Packet::format wrote                                                    *)
ParseWritten ==
    /\ pc = "formatted"
    /\ fres.res = OkE
    /\ src' = SubSeq(dst, 1, fres.n)
    /\ pres' = Packet_parse(SubSeq(dst, 1, fres.n))
    /\ craft' = [kind |-> "formatted"]
    /\ pc' = "parsed"
    /\ UNCHANGED <<p, dst, fres>>

(* query_int at its send_to: the packet is Packet::query(12345) with the   *)
(* one question pushed, of class In, formatted into a buffer of 512 bytes  *)
(* with success                                                            *)
QuerySent ==
    /\ pc = "formatted"
    /\ fres.res = OkE
    /\ Len(dst) = MaxPacket
    /\ Len(p.question) = 1
    /\ p.question[1].class = "In"
    /\ [p EXCEPT !.question = <<>>] = query(12345)

(* socket.send_to(&buf[..len], ..) returns Ok *)
Send ==
    /\ QuerySent
    /\ pc' = "sent"
    /\ UNCHANGED <<p, dst, fres, src, craft, pres>>

(* socket.send_to(&buf[..len], ..) returns Err: query_int returns Err(()) *)
SendFails ==
    /\ QuerySent
    /\ pc' = "failed"
    /\ UNCHANGED <<p, dst, fres, src, craft, pres>>

(* socket.recv_from(&mut buf) returns Ok: the datagram of the peer, cut to *)
(* the buffer, is written over what format wrote, and len is its length    *)
Receive(rc) ==
    /\ pc = "sent"
    /\ \E d \in {SubSeq(Datagram(rc), 1, Min(Len(Datagram(rc)), Len(dst)))} :
       /\ dst' = d \o SubSeq(dst, Len(d) + 1, Len(dst))
       /\ src' = d
    /\ craft' = rc
    /\ pc' = "received"
    /\ UNCHANGED <<p, fres, pres>>

(* socket.recv_from(&mut buf) returns Err (the timeout passed): query_int  *)
(* returns Err(())                                                         *)
ReceiveFails ==
    /\ pc = "sent"
    /\ pc' = "failed"
    /\ UNCHANGED <<p, dst, fres, src, craft, pres>>

(* Packet::parse(&buf[..len]) *)
Parse ==
    /\ pc = "received"
    /\ pres' = Packet_parse(src)
    /\ pc' = "parsed"
    /\ UNCHANGED <<p, dst, fres, src, craft>>

Next ==
    \/ \E q \in Questions : PushQuestion(q)
    \/ \E r \in Records : PushAnswer(r)
    \/ \E r \in Records : PushAuthority(r)
    \/ \E r \in Records : PushAdditional(r)
    \/ \E c \in Capacities(p) : Format(c)
    \/ ParseWritten
    \/ Send
    \/ SendFails
    \/ \E rc \in Datagrams : Receive(rc)
    \/ ReceiveFails
    \/ Parse

Spec == Init /\ [][Next]_vars

----------------------------------------------------------------------------
(* What the claims speak of *)

SeqToSet(s) == {s[i] : i \in 1..Len(s)}

RecordsOf(pk) == SeqToSet(pk.answer) \cup SeqToSet(pk.authority) \cup SeqToSet(pk.additional)

DataNames(d) ==
    CASE d.tag = "Mx" -> {d.domain}
      [] d.tag = "Ptr" -> {d.domain}
      [] d.tag = "Rp" -> {d.mbox, d.txt}
      [] OTHER -> {}

DataTexts(d) == IF d.tag = "Txt" THEN SeqToSet(d.text) ELSE {}

NamesOf(pk) ==
    {q.name : q \in SeqToSet(pk.question)}
    \cup {r.name : r \in RecordsOf(pk)}
    \cup UNION {DataNames(r.data) : r \in RecordsOf(pk)}

LabelsOf(pk) == UNION {SeqToSet(split(n)) : n \in NamesOf(pk)}

TextsOf(pk) == UNION {DataTexts(r.data) : r \in RecordsOf(pk)}

(* every label at most 63 bytes and every text entry at most 255 bytes *)
WithinLimits(pk) ==
    /\ \A l \in LabelsOf(pk) : Len(l) <= MaxLabel
    /\ \A t \in TextsOf(pk) : Len(t) <= MaxString

Formatted == pc = "formatted" \/ craft.kind = "formatted"
Capacity == Len(dst)
Before == Rep(Len(dst), FillByte)

----------------------------------------------------------------------------
(* C1: round trip.  A packet of computed length at most 512 whose labels   *)
(* are at most 63 bytes and whose text entries are at most 255 bytes       *)
(* formats successfully into a buffer of sufficient capacity, and parsing  *)
(* the bytes written succeeds with the same byte count and an equal packet *)
C1_RoundTrip ==
    /\ (Formatted /\ len_packet(p) <= MaxPacket /\ WithinLimits(p)
            /\ Capacity >= len_packet(p))
       => fres.res = OkE
    /\ (pc = "parsed" /\ craft.kind = "formatted" /\ WithinLimits(p))
       => (pres.st = "ok" /\ pres.n = fres.n /\ pres.packet = p)

----------------------------------------------------------------------------
(* C2: compression-loop safety.  For every input in which a compression   *)
(* pointer targets its own offset, or a chain of pointers returns to an    *)
(* offset already visited, Packet::parse returns the decode failure.       *)
LoopForms == {"self", "mutual", "lblself"}

Crafted == craft.kind = "crafted"

(* the parser reaches a name whose pointers loop *)
ReachesLoop(rc) ==
    \/ rc.question[1].name \in LoopForms
    \/ /\ rc.question = <<GoodQuestion>>
       /\ Len(rc.answer) >= 1
       /\ rc.answer[1].name \in LoopForms

C2_LoopSafety ==
    (pc = "parsed" /\ Crafted /\ ReachesLoop(craft)) => pres.st = "err"

----------------------------------------------------------------------------
(* C3: no partial output on format failure.  Whenever Packet::format       *)
(* returns an error, every byte of the destination is as before the call.  *)
C3_NoPartialOutput ==
    (Formatted /\ fres.res.tag \in {"Size", "Buffer", "Label", "String"})
    => dst = Before

----------------------------------------------------------------------------
(* C4: exact length.  When Packet::format succeeds, the byte count it      *)
(* returns is len::packet(p), which is 12 + the sum over questions of      *)
(* (encoded name + 4) + the sum over records of (encoded name + 10 +       *)
(* rdata), and the 16-bit rdata length written for each record is the      *)
(* number of rdata bytes written after it.                                 *)

(* k labels hold Len(s) - (k - 1) bytes; with k length bytes and the       *)
(* terminating zero the encoded name is Len(s) + 2 bytes long              *)
EncodedNameLen(s) == Len(s) + 2

RdataLen(d) ==
    CASE d.tag = "A" -> 4
      [] d.tag = "Aaaa" -> 16
      [] d.tag = "Mx" -> 2 + EncodedNameLen(d.domain)
      [] d.tag = "Ptr" -> EncodedNameLen(d.domain)
      [] d.tag = "Rp" -> EncodedNameLen(d.mbox) + EncodedNameLen(d.txt)
      [] d.tag = "Txt" -> SumSeq([i \in 1..Len(d.text) |-> 1 + Len(d.text[i])])

AllRecords(pk) == pk.answer \o pk.authority \o pk.additional

ExactLength(pk) ==
    12 + SumSeq([i \in 1..Len(pk.question) |-> EncodedNameLen(pk.question[i].name) + 4])
       + SumSeq([i \in 1..Len(AllRecords(pk)) |->
                    EncodedNameLen(AllRecords(pk)[i].name) + 10
                    + RdataLen(AllRecords(pk)[i].data)])

C4_ExactLength ==
    (Formatted /\ fres.res = OkE) =>
        /\ fres.n = len_packet(p)
        /\ fres.n = ExactLength(p)
        /\ Len(fres.log) = Len(AllRecords(p))
        /\ \A i \in 1..Len(fres.log) :
              LET e == fres.log[i] IN
              /\ dst[e.from - 1] * 256 + dst[e.from] = e.to - e.from
              /\ e.to - e.from = RdataLen(AllRecords(p)[i].data)

C4_Witness ==
    /\ Formatted /\ fres.res = OkE
    /\ fres.n = MaxPacket
    /\ Len(fres.log) = 2

----------------------------------------------------------------------------
(* C5: size ceiling.  A packet whose computed length is 513 or more makes  *)
(* Packet::format fail with Size, whatever the capacity and whatever       *)
(* labels and text entries it holds, with no byte of the destination       *)
(* written; a packet of computed length 512 is not rejected with Size.     *)
C5_SizeCeiling ==
    Formatted =>
        /\ len_packet(p) >= MaxPacket + 1 => (fres.res = SizeE /\ dst = Before)
        /\ len_packet(p) = MaxPacket => fres.res # SizeE

C5_Witness ==
    /\ Formatted
    /\ len_packet(p) = MaxPacket + 1
    /\ ~WithinLimits(p)
    /\ Capacity > len_packet(p)
    /\ fres.res = SizeE

----------------------------------------------------------------------------
(* C6: buffer sizing.  With computed length L <= 512, a destination of     *)
(* capacity c < L makes Packet::format fail with Buffer(L), also when the  *)
(* packet holds an over-long label or text entry; with c >= L it never     *)
(* fails with Buffer.                                                      *)
C6_BufferSizing ==
    (Formatted /\ len_packet(p) <= MaxPacket) =>
        /\ Capacity < len_packet(p) => fres.res = BufferE(len_packet(p))
        /\ Capacity >= len_packet(p) => fres.res.tag # "Buffer"

C6_Witness ==
    /\ Formatted
    /\ len_packet(p) <= MaxPacket
    /\ Capacity = len_packet(p) - 1
    /\ ~WithinLimits(p)
    /\ fres.res = BufferE(len_packet(p))

----------------------------------------------------------------------------
(* C7: element ceilings.  With computed length <= 512 and sufficient       *)
(* capacity, Packet::format fails with Label(n) exactly when the first     *)
(* over-limit element in write order is a label of n > 63 bytes, with      *)
(* String(n) exactly when it is a text entry of n > 255 bytes, and         *)
(* succeeds when no element is over its limit.                             *)
RECURSIVE Flatten(_)
Flatten(ss) == IF ss = <<>> THEN <<>> ELSE ss[1] \o Flatten(Tail(ss))

LabelElems(name) ==
    LET parts == split(name) IN
    [i \in 1..Len(parts) |-> [kind |-> "label", n |-> Len(parts[i])]]

DataElems(d) ==
    CASE d.tag = "Mx" -> LabelElems(d.domain)
      [] d.tag = "Ptr" -> LabelElems(d.domain)
      [] d.tag = "Rp" -> LabelElems(d.mbox) \o LabelElems(d.txt)
      [] d.tag = "Txt" -> [i \in 1..Len(d.text) |-> [kind |-> "text", n |-> Len(d.text[i])]]
      [] OTHER -> <<>>

(* the labels and text entries of a packet in the order they are written *)
Elements(pk) ==
    Flatten([i \in 1..Len(pk.question) |-> LabelElems(pk.question[i].name)])
    \o Flatten([i \in 1..Len(AllRecords(pk)) |->
                   LabelElems(AllRecords(pk)[i].name) \o DataElems(AllRecords(pk)[i].data)])

OverLimit(e) == IF e.kind = "label" THEN e.n > 63 ELSE e.n > 255

ExpectedResult(pk) ==
    LET es == Elements(pk)
        over == {i \in 1..Len(es) : OverLimit(es[i])}
    IN IF over = {} THEN OkE
       ELSE LET f == CHOOSE i \in over : \A j \in over : i <= j IN
            IF es[f].kind = "label" THEN LabelE(es[f].n) ELSE StringE(es[f].n)

C7_ElementCeilings ==
    (Formatted /\ len_packet(p) <= MaxPacket /\ Capacity >= len_packet(p))
    => fres.res = ExpectedResult(p)

(* a text entry over its limit written before a label over its limit *)
C7_Witness ==
    /\ Formatted /\ len_packet(p) <= MaxPacket /\ Capacity >= len_packet(p)
    /\ fres.res = StringE(256)
    /\ \E l \in LabelsOf(p) : Len(l) = 64

----------------------------------------------------------------------------
(* C8: question strictness.  If decoding a declared question's name, type  *)
(* code or class code fails, Packet::parse returns the decode failure for  *)
(* the whole message: no question is skipped and no Packet is returned.    *)
BadNameForms == {"badbits", "short", "badutf8", "beyond", "self"}
GoodNameForms == {"plain", "root"}
KnownTypes == {1, 12, 15, 16, 17, 28, 255}
KnownClasses == {1, 255}

QuestionCase == pc = "parsed" /\ Crafted /\ craft.answer = <<>>

UnknownCodes(e) == e.ty \notin KnownTypes \/ e.cl \notin KnownClasses

C8_QuestionStrictness ==
    (QuestionCase
        /\ (craft.question[1].name \in BadNameForms
            \/ (craft.question[1].name \in GoodNameForms
                /\ UnknownCodes(craft.question[1]))))
    => pres.st = "err"

----------------------------------------------------------------------------
(* C9: record tolerance.  A record whose type or class code is             *)
(* unrecognized and whose declared rdata length is at most the bytes       *)
(* remaining is left out of its section, the cursor advances by exactly    *)
(* the declared rdata length, and the records after it decode as they      *)
(* would without it; if the declared length exceeds the bytes remaining,   *)
(* Packet::parse fails for the whole message.                              *)
RecordSections == <<"answer", "authority", "additional">>

(* the records of a recipe and the events of a parse, in message order *)
RecipeRecords(rc) == rc.answer \o rc.authority \o rc.additional
RecordEvents(log) == log.answer \o log.authority \o log.additional

(* the recipe without its k-th record, counted in message order *)
Without(rc, k) ==
    LET drop(s, i) == IF i \in 1..Len(s)
                      THEN SubSeq(s, 1, i - 1) \o SubSeq(s, i + 1, Len(s)) ELSE s
    IN [rc EXCEPT !.answer = drop(@, k),
                  !.authority = drop(@, k - Len(rc.answer)),
                  !.additional = drop(@, k - Len(rc.answer) - Len(rc.authority))]

(* the section of the k-th record and its index there *)
SectionOf(rc, k) ==
    IF k <= Len(rc.answer) THEN "answer"
    ELSE IF k <= Len(rc.answer) + Len(rc.authority) THEN "authority" ELSE "additional"

(* the parser gets to the k-th record: what precedes it is well formed *)
RecordCase(k) ==
    /\ pc = "parsed" /\ Crafted
    /\ craft.question = <<GoodQuestion>>
    /\ k \in 1..Len(RecipeRecords(craft))
    /\ \A j \in 1..(k - 1) : RecipeRecords(craft)[j] = GoodRecord
    /\ RecipeRecords(craft)[k].name \in {"plain", "ptr", "lblptr"}
    /\ UnknownCodes(RecipeRecords(craft)[k])

(* the rdata length declared in the message for the entry of event e *)
DeclaredLen(e) == src[e.rdstart - 1] * 256 + src[e.rdstart]

C9_RecordTolerance ==
    /\ \A k \in 1..3 :
          RecordCase(k) =>
             IF RecipeRecords(craft)[k].exact
             THEN /\ pres.st = "ok"
                  /\ pres.n = Len(src)
                  /\ pres.packet = Packet_parse(Wire(Without(craft, k))).packet
                  /\ RecordEvents(pres.log)[k].st = "skip"
                  /\ Len(pres.log[SectionOf(craft, k)])
                        = Len(craft[SectionOf(craft, k)])
                  /\ Len(pres.packet[SectionOf(craft, k)])
                        = Len(craft[SectionOf(craft, k)]) - 1
             ELSE pres.st = "err"
    /\ (pc = "parsed" /\ craft.kind \in {"crafted", "formatted"}) =>
          LET es == RecordEvents(pres.log) IN
          \A i \in 1..Len(es) :
              /\ es[i].st = "skip" =>
                    /\ DeclaredLen(es[i]) <= Len(src) - es[i].rdstart
                    /\ es[i].end = es[i].rdstart + DeclaredLen(es[i])
              /\ i < Len(es) => es[i + 1].start = es[i].end

C9_Witness ==
    /\ RecordCase(2)
    /\ craft.authority # <<>>
    /\ craft.authority[1].ty = 99
    /\ craft.authority[1].exact
    /\ Len(craft.additional) = 1
    /\ pres.st = "ok"
    /\ pres.packet.authority = <<>>
    /\ Len(pres.packet.additional) = 1
    /\ pres.packet.additional[1].data = [tag |-> "A", ip |-> <<93, 184, 216, 34>>]

----------------------------------------------------------------------------
(* C10: compression correctness.  A name written as zero or more labels    *)
(* followed by a pointer to the start of a well-formed earlier name        *)
(* decodes to the leading labels joined by '.' with the name at the        *)
(* target, also when the target is reached through a chain of pointers     *)
(* that ends; the cursor resumes right after the two pointer bytes and the *)
(* fields that follow decode correctly; a pointer whose offset lies beyond *)
(* the end of the message fails the decode.                                *)
LeadingLen(form) == IF form = "lblptr" THEN 4 ELSE 0

ExpectedName(form, target) ==
    IF form = "lblptr" THEN N_www \o <<DOT>> \o target ELSE target

ExpectedData(r, target) ==
    IF r.ty = 1 THEN [tag |-> "A", ip |-> <<93, 184, 216, 34>>]
    ELSE [tag |-> "Mx", preference |-> 10, domain |-> target]

(* the first answer's name is compressed and the record is well formed *)
CompressedName ==
    /\ pc = "parsed" /\ Crafted
    /\ craft.question = <<GoodQuestion>>
    /\ Len(craft.answer) >= 1
    /\ craft.answer[1].name \in {"ptr", "lblptr"}
    /\ craft.answer[1].ty \in {1, 15}
    /\ craft.answer[1].cl = 1
    /\ craft.answer[1].exact

(* and so is everything after it *)
CompressedCase ==
    /\ CompressedName
    /\ \A j \in 2..Len(RecipeRecords(craft)) : RecipeRecords(craft)[j] = GoodRecord

BeyondCase ==
    /\ pc = "parsed" /\ Crafted
    /\ \/ craft.question[1].name = "beyond"
       \/ /\ craft.question = <<GoodQuestion>>
          /\ \E k \in 1..Len(RecipeRecords(craft)) :
                /\ RecipeRecords(craft)[k].name = "beyond"
                /\ \A j \in 1..(k - 1) : RecipeRecords(craft)[j] = GoodRecord

C10_Compression ==
    /\ CompressedCase =>
          /\ pres.st = "ok"
          /\ pres.n = Len(src)
          /\ pres.packet.question[1].name = N_example
          /\ pres.packet.answer[1] =
                [name |-> ExpectedName(craft.answer[1].name, pres.packet.question[1].name),
                 class |-> "In", time_to_live |-> [secs |-> craft.answer[1].ttl, nanos |-> 0],
                 data |-> ExpectedData(craft.answer[1], pres.packet.question[1].name)]
    /\ CompressedName =>
          /\ pres.log.answer[1].st = "ok"
          /\ pres.log.answer[1].nameend =
                pres.log.answer[1].start + LeadingLen(craft.answer[1].name) + 2
    /\ BeyondCase => pres.st = "err"
    /\ (pc = "parsed" /\ craft.kind = "chain") =>
          /\ pres.st = "ok"
          /\ pres.n = Len(src)
          /\ Len(pres.packet.answer) = 1
          /\ pres.packet.answer[1].name = N_end
          /\ pres.log.answer[2].nameend = pres.log.answer[2].start + 2

C10_Witness ==
    /\ CompressedCase
    /\ craft.answer[1].name = "lblptr"
    /\ craft.answer[1].ty = 15
    /\ pres.st = "ok"
    /\ pres.packet.answer[1].data.domain = N_example

----------------------------------------------------------------------------
(* C11: header inversion.  As claimed: Packet::parse reads every header    *)
(* field from the bit Packet::format writes it to, the kind being bits 3-5 *)
(* of the first flag byte: the parse of a 12-byte header aborts exactly    *)
(* when bits 3-5 of the first flag byte are not 0, 1 or 2 or bits 0-3 of   *)
(* the second are not 0..5, and otherwise yields the fields that format    *)
(* encodes to those bits.                                                  *)
HeaderCase == pc = "parsed" /\ craft.kind = "header"

BitOf(byte, n) == (byte \div (2 ^ n)) % 2 = 1

KindOf(code) == CASE code = 0 -> "Standard" [] code = 1 -> "Inverse" [] code = 2 -> "Status"

ResponseCodeOf(code) ==
    CASE code = 0 -> "Ok" [] code = 1 -> "FormatError" [] code = 2 -> "ServerFailure"
      [] code = 3 -> "NameError" [] code = 4 -> "NotImplemented" [] code = 5 -> "Refused"

IdOf(id) == LET v == id[1] * 256 + id[2] IN IF v >= 32768 THEN v - 65536 ELSE v

(* the header fields read from the bits, the kind being `kind` *)
FieldsOf(rc, kind) ==
    [id |-> IdOf(rc.id), is_query |-> ~BitOf(rc.f1, 7), kind |-> KindOf(kind),
     is_authoritative |-> BitOf(rc.f1, 2), truncated |-> BitOf(rc.f1, 1),
     recursion_desired |-> BitOf(rc.f1, 0), recursion_available |-> BitOf(rc.f2, 7),
     response_code |-> ResponseCodeOf(rc.f2 % 16),
     question |-> <<>>, answer |-> <<>>, authority |-> <<>>, additional |-> <<>>]

(* what Packet::format writes for the packet parsed: the flag bytes *)
Reformatted == SubSeq(Packet_format(pres.packet, Rep(HeaderSize, 0)).buf, 3, 4)

Kind3(rc) == (rc.f1 \div 8) % 8
Kind4(rc) == (rc.f1 \div 8) % 16

C11_HeaderInversion3 ==
    HeaderCase =>
        IF Kind3(craft) \notin {0, 1, 2} \/ craft.f2 % 16 \notin 0..5
        THEN pres.st = "err"
        ELSE /\ pres.st = "ok"
             /\ pres.packet = FieldsOf(craft, Kind3(craft))

(* C11 as amended: the kind is bits 3-6 of the first flag byte.  The parse *)
(* of a 12-byte header aborts exactly when bits 3-6 of the first flag byte *)
(* are not 0, 1 or 2 or bits 0-3 of the second are not 0..5; otherwise it  *)
(* consumes the 12 bytes and yields the fields that Packet::format encodes *)
(* to those bits: formatting the packet parsed gives the same flag bytes,  *)
(* bits 4-6 of the second, which hold no field, being written as zero.     *)
C11_HeaderInversion ==
    HeaderCase =>
        IF Kind4(craft) \notin {0, 1, 2} \/ craft.f2 % 16 \notin 0..5
        THEN pres.st = "err"
        ELSE /\ pres.st = "ok"
             /\ pres.n = HeaderSize
             /\ pres.packet = FieldsOf(craft, Kind4(craft))
             /\ Reformatted = <<craft.f1, craft.f2 - ((craft.f2 \div 16) % 8) * 16>>

C11_Witness ==
    /\ HeaderCase
    /\ craft.f1 = 151
    /\ craft.f2 = 133
    /\ pres.st = "ok"
    /\ pres.packet.kind = "Status"
    /\ pres.packet.response_code = "Refused"
    /\ pres.packet.recursion_available

----------------------------------------------------------------------------
(* C12: text-record consumption.  For every successfully decoded TXT       *)
(* record with declared rdata length L, the cursor after the record is     *)
(* exactly L bytes past the start of the rdata, never beyond it.           *)
Whole == craft.kind \in {"typed", "crafted", "formatted"}

C12_TxtConsumption ==
    (pc = "parsed" /\ Whole /\ pres.st = "ok") =>
        \A i \in 1..Len(RecordEvents(pres.log)) :
            LET e == RecordEvents(pres.log)[i] IN
            (e.st = "ok" /\ e.ty = "Txt") => e.end = e.rdstart + DeclaredLen(e)

----------------------------------------------------------------------------
(* C13: truncated input is a failure.  An input that ends inside the       *)
(* 12-byte header (the empty input included), inside a name before its     *)
(* terminating zero label, or inside the type, class, ttl or rdata length  *)
(* of a declared question or record makes Packet::parse return the decode  *)
(* failure.                                                                *)
QuestionAt == HeaderSize
QuestionNameEnd == QuestionAt + Len(W_example)
RecordAt == QuestionNameEnd + 4
RecordNameEnd == RecordAt + Len(W_example)

(* the lengths at which the message of CutBase ends inside the header,     *)
(* inside a name, or inside a field of two or four bytes                   *)
CutInside ==
    (0..(HeaderSize - 1))
    \cup ((QuestionAt + 1)..(QuestionNameEnd - 1))
    \cup {QuestionNameEnd + 1, QuestionNameEnd + 3}
    \cup ((RecordAt + 1)..(RecordNameEnd - 1))
    \cup {RecordNameEnd + 1, RecordNameEnd + 3}
    \cup ((RecordNameEnd + 5)..(RecordNameEnd + 7))
    \cup {RecordNameEnd + 9}

C13_TruncatedFails ==
    (pc = "parsed" /\ craft.kind = "cut" /\ craft.at \in CutInside) => pres.st = "err"

----------------------------------------------------------------------------
(* C14: the declared rdata length is honoured for typed records.  For      *)
(* every successfully decoded record of type A, AAAA, MX, PTR or RP the    *)
(* rdata bytes consumed are as many as the record declares: the cursor is  *)
(* left at rdata start + declared rdata length, where the next record is   *)
(* decoded.                                                                *)
FixedTypes == {"A", "Aaaa", "Mx", "Ptr", "Rp"}

C14_DeclaredLength ==
    (pc = "parsed" /\ Whole /\ pres.st = "ok") =>
        \A i \in 1..Len(RecordEvents(pres.log)) :
            LET e == RecordEvents(pres.log)[i] IN
            (e.st = "ok" /\ e.ty \in FixedTypes) =>
                /\ e.end = e.rdstart + DeclaredLen(e)
                /\ i < Len(RecordEvents(pres.log)) =>
                      RecordEvents(pres.log)[i + 1].start = e.rdstart + DeclaredLen(e)

====
